---- MODULE Spec2Model ----
(***************************************************************************)
(* Scene segmentation, content-boundary detection and highlight selection  *)
(* of movie-analyzer-pro (modules/scene_analyzer.py, content_detector.py,  *)
(* highlight_detector.py).                                                 *)
(*                                                                         *)
(* The video file is the variable src.  A frame is a record of what the    *)
(* detectors measure on it: the luma of its upper and lower half (each     *)
(* half uniform), and the outputs of the OpenCV collaborators on it (face  *)
(* count, edge density, colour variance, optical flow towards the next     *)
(* frame).  A video is a run-length list: a run shows frame f on its even  *)
(* offsets and frame g on its odd ones (g = f for a still run).            *)
(*                                                                         *)
(* Times are exact: one tick is 1/TicksPerSecond second, and every frame   *)
(* rate of FpsValues divides TicksPerSecond/20, so that frame_idx / fps    *)
(* and total_duration * 0.95 are whole numbers of ticks.  Means            *)
(* (brightness, motion) are kept as fractions [num, den].                  *)
(*                                                                         *)
(* Every public method is one action; it computes the whole call.          *)
(***************************************************************************)
EXTENDS Integers, Sequences, FiniteSets, TLC

VARIABLES src,      \* the video file all three detectors were constructed on
          sa,       \* SceneAnalyzer fields (fps, frame_count)
          cd,       \* ContentDetector fields (fps, frame_count, height)
          hd,       \* HighlightDetector fields (highlights)
          scenes,   \* the scene list the caller holds (last detect_scenes value)
          call,     \* the last call: its operation, arguments and return value
          run,      \* the locals of the detect_scenes call in progress, or None
          ref       \* the first call of the run (kept only by the Tracked actions)

vars == <<src, sa, cd, hd, scenes, call, run, ref>>

\* Python's None, and a value that is not None.
None == [none |-> TRUE]

Some(x) == [none |-> FALSE, val |-> x]

(***************************************************************************)
(* Units and small helpers                                                 *)
(***************************************************************************)
TicksPerSecond == 20 * 10

Sec(s) == s * TicksPerSecond

Abs(x) == IF x < 0 THEN -x ELSE x

Min(a, b) == IF a <= b THEN a ELSE b

Max(a, b) == IF a >= b THEN a ELSE b

\* Python int() on the quotient a / b (b > 0): truncation towards zero.
Trunc(a, b) == IF a >= 0 THEN a \div b ELSE -((-a) \div b)

\* Python range(start, stop, step) as a sequence.
Range(start, stop, step) ==
    IF step > 0
    THEN IF stop <= start THEN <<>>
         ELSE [k \in 1..((stop - start + step - 1) \div step) |-> start + (k - 1) * step]
    ELSE IF stop >= start THEN <<>>
         ELSE [k \in 1..((start - stop + (-step) - 1) \div (-step)) |-> start + (k - 1) * step]

\* Fractions num/den with den > 0.
Frac(n, d) == [num |-> n, den |-> d]

FracGt(q, k) == q.num > k * q.den

FracGe(q, k) == q.num >= k * q.den

FracLe(q, k) == q.num <= k * q.den

FracLt(q, k) == q.num < k * q.den

\* The sum of a sequence of numbers, by halves.
RECURSIVE SumSeq(_)
SumSeq(s) ==
    IF s = <<>> THEN 0
    ELSE IF Len(s) = 1 THEN s[1]
    ELSE SumSeq(SubSeq(s, 1, Len(s) \div 2)) + SumSeq(SubSeq(s, (Len(s) \div 2) + 1, Len(s)))

(***************************************************************************)
(* The frame source (cv2.VideoCapture on the file)                         *)
(***************************************************************************)
Fr(t, b, fc, e, cv, fl) ==
    [top |-> t, bot |-> b, faces |-> fc, edges |-> e, cvar |-> cv, flow |-> fl]

Black   == Fr(0, 0, 0, 0, 0, 0)
Dim     == Fr(70, 70, 0, 0, 0, 0)
Plain   == Fr(100, 100, 1, 0, 0, 0)
Bright  == Fr(200, 200, 0, 0, 0, 1)
Ticker  == Fr(100, 140, 3, 0, 25000, 0)
Credit  == Fr(0, 24, 0, 1, 0, 0)

NoFrame == [top |-> -1]

Run(n, f, g) == [n |-> n, f |-> f, g |-> g]

Still(n, f) == Run(n, f, f)

RECURSIVE RunsLen(_)
RunsLen(runs) == IF runs = <<>> THEN 0 ELSE Head(runs).n + RunsLen(Tail(runs))

RECURSIVE FrameIn(_, _)
FrameIn(runs, idx) ==
    IF runs = <<>> THEN NoFrame
    ELSE IF idx < Head(runs).n
         THEN (IF idx % 2 = 0 THEN Head(runs).f ELSE Head(runs).g)
         ELSE FrameIn(Tail(runs), idx - Head(runs).n)

\* cap.set(cv2.CAP_PROP_POS_FRAMES, idx); ret, frame = cap.read()
\* ret is False past the last frame and from the first undecodable frame on.
read(s, idx) ==
    IF idx < 0 \/ idx >= s.frame_count \/ idx >= s.readable THEN NoFrame
    ELSE FrameIn(s.runs, idx)

\* np.mean(cv2.cvtColor(frame, cv2.COLOR_BGR2GRAY))
mean_gray(f) == (f.top + f.bot) \div 2

\* np.mean(cv2.absdiff(a, b)) on whole frames
mean_absdiff(a, b) == (Abs(a.top - b.top) + Abs(a.bot - b.bot)) \div 2

\* np.mean(cv2.absdiff(a, b)) on the lower halves, frame[int(height * 0.5):, :]
mean_absdiff_bottom(a, b) == Abs(a.bot - b.bot)

Source(fps, runs, readable) ==
    [fps |-> fps, frame_count |-> RunsLen(runs), readable |-> readable, runs |-> runs]

\* frame_idx / fps, in ticks
FrameTime(fps, frame_idx) == frame_idx * (TicksPerSecond \div fps)

(***************************************************************************)
(* SceneAnalyzer                                                           *)
(***************************************************************************)
\* _analyze_scene_frames: mean brightness, mean difference of consecutive
\* frames, faces on the middle frame frames[len(frames)//2].
_analyze_scene_frames(frames) ==
    IF frames = <<>>
    THEN [brightness |-> Frac(0, 1), motion |-> Frac(0, 1), faces |-> 0]
    ELSE LET n == Len(frames)
         IN [brightness |-> Frac(SumSeq([i \in 1..n |-> mean_gray(frames[i])]), n),
             motion |-> IF n > 1
                        THEN Frac(SumSeq([i \in 1..(n - 1) |->
                                            mean_absdiff(frames[i], frames[i + 1])]), n - 1)
                        ELSE Frac(0, 1),
             faces |-> frames[(n \div 2) + 1].faces]

\* _generate_scene_description: the tags joined into the description string.
_generate_scene_description(scene_info) ==
    <<IF FracLt(scene_info.brightness, 50) THEN "dark"
      ELSE IF FracLt(scene_info.brightness, 150) THEN "normal" ELSE "bright",
      IF FracGt(scene_info.motion, 20) THEN "high"
      ELSE IF FracGt(scene_info.motion, 10) THEN "medium" ELSE "static",
      scene_info.faces>>

\* The dict appended to scenes (lines 65-74 and 85-94).
SceneDict(id, start_idx, end_idx, fps, scene_info) ==
    [id |-> id,
     start |-> FrameTime(fps, start_idx),
     end |-> FrameTime(fps, end_idx),
     duration |-> FrameTime(fps, end_idx - start_idx),
     brightness |-> scene_info.brightness,
     motion |-> scene_info.motion,
     faces |-> scene_info.faces,
     description |-> _generate_scene_description(scene_info)]

\* is_cut with >= for >.
is_cut_inclusive(mean_diff, threshold) == mean_diff >= threshold

\* mean_diff > threshold (line 61)
is_cut(mean_diff, threshold) == mean_diff > threshold

\* One pass of the loop body (lines 52-80) on a decoded frame.
scene_step(fps, threshold, frame_idx, gray, st) ==
    LET cut == /\ st.prev_frame # NoFrame
               /\ is_cut(mean_absdiff(st.prev_frame, gray), threshold)
        closed == SceneDict(Len(st.scenes), st.scene_start, frame_idx, fps,
                            _analyze_scene_frames(st.scene_frames))
    IN [prev_frame |-> gray,
        scene_start |-> IF cut THEN frame_idx ELSE st.scene_start,
        scene_frames |-> Append(IF cut THEN <<>> ELSE st.scene_frames, gray),
        scenes |-> IF cut THEN Append(st.scenes, closed) ELSE st.scenes]

\* for frame_idx in range(0, max_frames, int(self.fps)), with the break on a
\* failed read (lines 45-50).
RECURSIVE scene_loop(_, _, _, _, _, _)
scene_loop(s, fps, threshold, max_frames, frame_idx, st) ==
    IF frame_idx >= max_frames THEN st
    ELSE LET frame == read(s, frame_idx)
         IN IF frame = NoFrame THEN st
            ELSE scene_loop(s, fps, threshold, max_frames, frame_idx + fps,
                            scene_step(fps, threshold, frame_idx, frame, st))

\* The locals before the loop (lines 33, 41-43).
scene_init ==
    [prev_frame |-> NoFrame, scene_start |-> 0, scene_frames |-> <<>>, scenes |-> <<>>]

\* max_frames = min(int(max_duration * self.fps), self.frame_count) (line 39)
max_frames_of(self, max_duration) == Min(max_duration * self.fps, self.frame_count)

\* scene_flush ending the last scene at the last frame read instead of max_frames.
scene_flush_at_last_sample(fps, max_frames, st) ==
    IF st.scene_frames # <<>>
    THEN Append(st.scenes,
                SceneDict(Len(st.scenes), st.scene_start,
                          st.scene_start + (Len(st.scene_frames) - 1) * fps, fps,
                          _analyze_scene_frames(st.scene_frames)))
    ELSE st.scenes

\* scene_flush returning the last scene alone, without the scenes closed before.
scene_flush_last_only(fps, max_frames, st) ==
    IF st.scene_frames # <<>>
    THEN <<SceneDict(Len(st.scenes), st.scene_start, max_frames, fps,
                     _analyze_scene_frames(st.scene_frames))>>
    ELSE <<>>

\* scene_flush dropping a buffer of one frame.
scene_flush_two_or_more(fps, max_frames, st) ==
    IF Len(st.scene_frames) >= 2
    THEN Append(st.scenes,
                SceneDict(Len(st.scenes), st.scene_start, max_frames, fps,
                          _analyze_scene_frames(st.scene_frames)))
    ELSE st.scenes

\* scene_flush ending the last scene where it starts.
scene_flush_at_scene_start(fps, max_frames, st) ==
    IF st.scene_frames # <<>>
    THEN Append(st.scenes,
                SceneDict(Len(st.scenes), st.scene_start, st.scene_start, fps,
                          _analyze_scene_frames(st.scene_frames)))
    ELSE st.scenes

\* The last scene is added when frames are buffered (lines 83-94).
scene_flush(fps, max_frames, st) ==
    IF st.scene_frames # <<>>
    THEN Append(st.scenes,
                SceneDict(Len(st.scenes), st.scene_start, max_frames, fps,
                          _analyze_scene_frames(st.scene_frames)))
    ELSE st.scenes

\* The fields detect_scenes sets from the opened file (lines 34-36).
scene_open(self, s) == [fps |-> s.fps, frame_count |-> s.frame_count]

\* detect_scenes(max_duration, threshold) as one evaluation: the new fields and
\* the returned list.
detect_scenes(self, s, max_duration, threshold) ==
    LET self1 == scene_open(self, s)
        max_frames == max_frames_of(self1, max_duration)
    IN [self |-> self1,
        ret |-> scene_flush(self1.fps, max_frames,
                            scene_loop(s, self1.fps, threshold, max_frames, 0, scene_init))]

(***************************************************************************)
(* HighlightDetector                                                       *)
(***************************************************************************)
\* Python list.sort(key=..., reverse=True) on a list of [key, val] pairs:
\* stable, descending by key.
RECURSIVE InsertDesc(_, _)
InsertDesc(sorted, x) ==
    IF sorted = <<>> THEN <<x>>
    ELSE IF Head(sorted).key >= x.key
         THEN <<Head(sorted)>> \o InsertDesc(Tail(sorted), x)
         ELSE <<x>> \o sorted

RECURSIVE SortDesc(_)
SortDesc(s) ==
    IF s = <<>> THEN <<>>
    ELSE InsertDesc(SortDesc(SubSeq(s, 1, Len(s) - 1)), s[Len(s)])

\* Python list.sort(key=...): stable, ascending by key.
RECURSIVE InsertAsc(_, _)
InsertAsc(sorted, x) ==
    IF sorted = <<>> THEN <<x>>
    ELSE IF Head(sorted).key <= x.key
         THEN <<Head(sorted)>> \o InsertAsc(Tail(sorted), x)
         ELSE <<x>> \o sorted

RECURSIVE SortAsc(_)
SortAsc(s) ==
    IF s = <<>> THEN <<>>
    ELSE InsertAsc(SortAsc(SubSeq(s, 1, Len(s) - 1)), s[Len(s)])

\* the elements of s paired with their sort keys
Keyed(s, keys) == [i \in 1..Len(s) |-> [key |-> keys[i], val |-> s[i]]]

Vals(s) == [i \in 1..Len(s) |-> s[i].val]

\* scene.get('dialogues', []): detect_scenes sets no such key.
Dialogues(scene) == IF "dialogues" \in DOMAIN scene THEN scene.dialogues ELSE <<>>

\* _calculate_scene_score with the motion bands closed below (>= 20, >= 10).
_calculate_scene_score_closed_bands(scene) ==
    (IF FracGe(scene.motion, 20) THEN 30
     ELSE IF FracGe(scene.motion, 10) THEN 20 ELSE 5)
    + scene.faces * 15
    + Len(Dialogues(scene)) * 10
    + (IF Sec(5) <= scene.duration /\ scene.duration <= Sec(20) THEN 20
       ELSE IF Sec(3) <= scene.duration /\ scene.duration <= Sec(30) THEN 10 ELSE 0)
    + (IF FracGe(scene.brightness, 50) /\ FracLe(scene.brightness, 150) THEN 10 ELSE 0)

\* _calculate_scene_score
_calculate_scene_score(scene) ==
    (IF FracGt(scene.motion, 20) THEN 30
     ELSE IF FracGt(scene.motion, 10) THEN 20 ELSE 5)
    + scene.faces * 15
    + Len(Dialogues(scene)) * 10
    + (IF Sec(5) <= scene.duration /\ scene.duration <= Sec(20) THEN 20
       ELSE IF Sec(3) <= scene.duration /\ scene.duration <= Sec(30) THEN 10 ELSE 0)
    + (IF FracGe(scene.brightness, 50) /\ FracLe(scene.brightness, 150) THEN 10 ELSE 0)

\* _get_highlight_reason: the reasons joined into the string.
_get_highlight_reason(scene) ==
    LET reasons ==
            (IF FracGt(scene.motion, 20) THEN <<"high motion">> ELSE <<>>)
            \o (IF scene.faces >= 3 THEN <<"group">>
                ELSE IF scene.faces > 0 THEN <<"people">> ELSE <<>>)
            \o (IF Len(Dialogues(scene)) > 2 THEN <<"dialogue">> ELSE <<>>)
    IN IF reasons # <<>> THEN reasons ELSE <<"high score">>

\* _classify_highlight_type
_classify_highlight_type(scene) ==
    IF FracGt(scene.motion, 20) THEN "action"
    ELSE IF Len(Dialogues(scene)) > 0 THEN "dialogue"
    ELSE IF scene.faces > 2 THEN "group"
    ELSE "scenic"

\* Take keeping one element too many.
TakeOneMore(s, n) == SubSeq(s, 1, Min(n + 1, Len(s)))

\* scored_scenes[:max_highlights], max_highlights >= 0
Take(s, n) == SubSeq(s, 1, Min(n, Len(s)))

\* _detect_from_scenes
RECURSIVE scene_highlights(_, _)
scene_highlights(picked, highlights) ==
    IF picked = <<>> THEN highlights
    ELSE LET scene == Head(picked)
         IN scene_highlights(Tail(picked),
                Append(highlights,
                       [id |-> Len(highlights),
                        start |-> scene.start,
                        end |-> scene.end,
                        duration |-> scene.duration,
                        score |-> scene.highlight_score,
                        reason |-> _get_highlight_reason(scene),
                        type |-> _classify_highlight_type(scene)]))

\* scored_scenes without the sort of line 59
scored_unsorted(scene_list) ==
    [i \in 1..Len(scene_list) |->
        scene_list[i] @@ [highlight_score |-> _calculate_scene_score(scene_list[i])]]

\* scored_scenes after the sort of line 59
scored_sorted(scene_list) ==
    LET scored_scenes ==
            [i \in 1..Len(scene_list) |->
                scene_list[i] @@ [highlight_score |-> _calculate_scene_score(scene_list[i])]]
    IN Vals(SortDesc(Keyed(scored_scenes,
                           [i \in 1..Len(scored_scenes) |-> scored_scenes[i].highlight_score])))

\* _detect_from_scenes appending to the list kept in self.highlights instead of
\* to a fresh one.
_detect_from_scenes_stale(self, scene_list, max_highlights) ==
    scene_highlights(Take(scored_sorted(scene_list), max_highlights), self.highlights)

_detect_from_scenes(self, scene_list, max_highlights) ==
    scene_highlights(Take(scored_sorted(scene_list), max_highlights), <<>>)

\* _calculate_motion: the frame after the current one is read; 0.0 when that
\* read fails, else the mean optical-flow magnitude between the two frames
\* (none between identical frames).
_calculate_motion(s, frame_idx, current_frame) ==
    LET next_frame == read(s, frame_idx + 1)
    IN IF next_frame = NoFrame THEN 0
       ELSE IF next_frame = current_frame THEN 0 ELSE current_frame.flow

\* _calculate_metric_score
_calculate_metric_score(metric) ==
    metric.motion * 30
    + metric.edges * 20
    + Min(metric.color_variance \div 1000, 20)
    + metric.faces * 25
    + (IF 50 <= metric.brightness /\ metric.brightness <= 150 THEN 10 ELSE 0)

\* The metric dict of one sampled frame (lines 96-107).
Metric(s, fps, frame_idx, frame) ==
    LET m == [frame_idx |-> frame_idx,
              time |-> FrameTime(fps, frame_idx),
              motion |-> _calculate_motion(s, frame_idx, frame),
              edges |-> frame.edges,
              color_variance |-> frame.cvar,
              brightness |-> mean_gray(frame),
              faces |-> frame.faces]
    IN m @@ [score |-> _calculate_metric_score(m)]

\* for frame_idx in range(0, frame_count, sample_interval), with the break on
\* a failed read (lines 88-108).
RECURSIVE metrics_loop(_, _, _, _, _)
metrics_loop(s, fps, frame_count, frame_idx, metrics) ==
    IF frame_idx >= frame_count THEN metrics
    ELSE LET frame == read(s, frame_idx)
         IN IF frame = NoFrame THEN metrics
            ELSE metrics_loop(s, fps, frame_count, frame_idx + fps,
                              Append(metrics, Metric(s, fps, frame_idx, frame)))

\* too_close comparing with min_duration instead of twice min_duration.
too_close_once(start_time, used_times, min_duration) ==
    \E t \in used_times : Abs(start_time - t) < Sec(min_duration)

\* any(abs(start_time - t) < min_duration * 2 for t in used_times) (line 252)
too_close(start_time, used_times, min_duration) ==
    \E t \in used_times : Abs(start_time - t) < Sec(min_duration) * 2

\* duration = min(max_duration, max(min_duration, 10.0)) (line 256)
segment_duration(min_duration, max_duration) ==
    Min(Sec(max_duration), Max(Sec(min_duration), Sec(10)))

\* The selection loop of _extract_highlight_segments (lines 246-269).
RECURSIVE select_segments(_, _, _, _, _, _)
select_segments(metrics, max_highlights, min_duration, max_duration, highlights, used_times) ==
    IF metrics = <<>> \/ Len(highlights) >= max_highlights THEN highlights
    ELSE LET metric == Head(metrics)
             start_time == metric.time
             duration == segment_duration(min_duration, max_duration)
         IN IF too_close(start_time, used_times, min_duration)
            THEN select_segments(Tail(metrics), max_highlights, min_duration, max_duration,
                                 highlights, used_times)
            ELSE select_segments(Tail(metrics), max_highlights, min_duration, max_duration,
                     Append(highlights,
                            [id |-> Len(highlights),
                             start |-> start_time,
                             end |-> start_time + duration,
                             duration |-> duration,
                             score |-> metric.score,
                             reason |-> <<"high motion", metric.motion>>,
                             type |-> IF metric.motion > 5 THEN "action" ELSE "dialogue"]),
                     used_times \cup {start_time})

\* _extract_highlight_segments: sort by score, select, sort by start.
_extract_highlight_segments(metrics, fps, max_highlights, min_duration, max_duration) ==
    LET sorted == Vals(SortDesc(Keyed(metrics, [i \in 1..Len(metrics) |-> metrics[i].score])))
        highlights == select_segments(sorted, max_highlights, min_duration, max_duration,
                                      <<>>, {})
    IN Vals(SortAsc(Keyed(highlights, [i \in 1..Len(highlights) |-> highlights[i].start])))

\* _detect_from_video
_detect_from_video(self, s, max_highlights, min_duration, max_duration) ==
    _extract_highlight_segments(metrics_loop(s, s.fps, s.frame_count, 0, <<>>),
                                s.fps, max_highlights, min_duration, max_duration)

\* detect_highlights choosing the scene path for every list, the empty one too.
detect_highlights_unless_none(self, s, scene_arg, max_highlights, min_duration, max_duration) ==
    LET highlights ==
            IF scene_arg # None
            THEN _detect_from_scenes(self, scene_arg.val, max_highlights)
            ELSE _detect_from_video(self, s, max_highlights, min_duration, max_duration)
    IN [self |-> [highlights |-> highlights], ret |-> highlights, raised |-> None]

\* detect_highlights: "if scenes:" is false for None and for the empty list.
\* No argument is validated and no statement on either path raises: raised
\* (the exception that reaches the caller) is None.
detect_highlights(self, s, scene_arg, max_highlights, min_duration, max_duration) ==
    LET highlights ==
            IF scene_arg # None /\ scene_arg.val # <<>>
            THEN _detect_from_scenes(self, scene_arg.val, max_highlights)
            ELSE _detect_from_video(self, s, max_highlights, min_duration, max_duration)
    IN [self |-> [highlights |-> highlights], ret |-> highlights, raised |-> None]

(***************************************************************************)
(* ContentDetector                                                         *)
(***************************************************************************)
\* int(time * self.fps) for a time in ticks
FrameIdxAt(fps, time) == Trunc(time * fps, TicksPerSecond)

\* int(time) for a time in ticks: whole seconds
IntSec(time) == Trunc(time, TicksPerSecond)

\* self.frame_count / self.fps
total_duration_of(s) == FrameTime(s.fps, s.frame_count)

\* _count_scene_changes: one frame per second from start to end, a change where
\* the mean difference from the previous frame exceeds 30; stops at a failed read.
RECURSIVE count_changes_loop(_, _, _, _, _, _)
count_changes_loop(s, fps, frame_idx, end_frame, prev_frame, changes) ==
    IF frame_idx >= end_frame THEN changes
    ELSE LET frame == read(s, frame_idx)
         IN IF frame = NoFrame THEN changes
            ELSE count_changes_loop(s, fps, frame_idx + fps, end_frame, frame,
                     IF prev_frame # NoFrame /\ mean_absdiff(frame, prev_frame) > 30
                     THEN changes + 1 ELSE changes)

_count_scene_changes(s, start, end) ==
    count_changes_loop(s, s.fps, FrameIdxAt(s.fps, start), FrameIdxAt(s.fps, end), NoFrame, 0)

\* _analyze_scene_change_frequency: changes / window_size per 10-second window.
_analyze_scene_change_frequency(s, start, end) ==
    LET ts == Range(IntSec(start), IntSec(end), 10)
    IN [k \in 1..Len(ts) |->
           Frac(_count_scene_changes(s, Sec(ts[k]), Min(Sec(ts[k] + 10), end)), 10)]

\* scene_changes[i] < scene_changes[i-1] * 0.5 (line 125)
frequency_dropped(cur, prev) == cur.num * prev.den * 2 < prev.num * cur.den

\* The loop of lines 124-127 without its break: the last window that dropped.
last_drop(scene_changes, i) ==
    LET drops == {j \in i..(Len(scene_changes) - 1) :
                     frequency_dropped(scene_changes[j + 1], scene_changes[j])}
    IN IF drops = {} THEN 0 ELSE (CHOOSE j \in drops : \A k \in drops : k <= j) * 10

\* The loop of lines 124-127: i * 10 for the first window that dropped, else 0.
RECURSIVE first_drop(_, _)
first_drop(scene_changes, i) ==
    IF i > Len(scene_changes) - 1 THEN 0
    ELSE IF frequency_dropped(scene_changes[i + 1], scene_changes[i]) THEN i * 10
    ELSE first_drop(scene_changes, i + 1)

\* _detect_intro with the default of 30 seconds not limited to the video.
_detect_intro_unlimited(s) ==
    LET max_intro_duration == Min(Sec(180), total_duration_of(s))
        scene_changes == _analyze_scene_change_frequency(s, 0, max_intro_duration)
        intro_end == first_drop(scene_changes, 1)
    IN IF intro_end = 0 THEN Sec(30) ELSE Sec(intro_end)

\* _detect_intro
_detect_intro(s) ==
    LET max_intro_duration == Min(Sec(180), total_duration_of(s))
        scene_changes == _analyze_scene_change_frequency(s, 0, max_intro_duration)
        intro_end == first_drop(scene_changes, 1)
    IN IF intro_end = 0 THEN Min(Sec(30), max_intro_duration) ELSE Sec(intro_end)

\* _has_rolling_credits: five frames spread over one second, movement where two
\* consecutive decoded ones differ by more than 10 in the lower half.
_has_rolling_credits(s, time) ==
    LET frame_idx == FrameIdxAt(s.fps, time)
        got == [i \in 1..5 |-> read(s, frame_idx + (i - 1) * (s.fps \div 5))]
        frames == SelectSeq(got, LAMBDA f : f # NoFrame)
    IN IF Len(frames) < 2 THEN FALSE
       ELSE \E i \in 2..Len(frames) : mean_absdiff_bottom(frames[i], frames[i - 1]) > 10

\* _is_black_frame
_is_black_frame(s, time) ==
    LET frame == read(s, FrameIdxAt(s.fps, time))
    IN IF frame = NoFrame THEN FALSE ELSE mean_gray(frame) < 20

\* _is_ending_content
_is_ending_content(s, start, end) ==
    LET ts == Range(IntSec(start), IntSec(end), 10)
    IN \A k \in 1..Len(ts) :
           _is_black_frame(s, Sec(ts[k])) \/ _has_rolling_credits(s, Sec(ts[k]))

\* The candidate loop of _detect_outro taking the last hit it visits instead of
\* the first.
outro_scan_earliest(s, ts, k, total_duration) ==
    LET hits == {j \in k..Len(ts) :
                    \/ _has_rolling_credits(s, Sec(ts[j]))
                    \/ /\ _is_black_frame(s, Sec(ts[j]))
                       /\ _is_ending_content(s, Sec(ts[j]), total_duration)}
    IN IF hits = {} THEN None
       ELSE Some(Sec(ts[CHOOSE j \in hits : \A i \in hits : i <= j]))

\* The candidate loop of _detect_outro (lines 152-161): the first hit, else None.
RECURSIVE outro_scan(_, _, _, _)
outro_scan(s, ts, k, total_duration) ==
    IF k > Len(ts) THEN None
    ELSE IF _has_rolling_credits(s, Sec(ts[k])) THEN Some(Sec(ts[k]))
    ELSE IF _is_black_frame(s, Sec(ts[k])) /\ _is_ending_content(s, Sec(ts[k]), total_duration)
         THEN Some(Sec(ts[k]))
    ELSE outro_scan(s, ts, k + 1, total_duration)

\* The default of _detect_outro without the 95 % alternative.
default_outro_last_minute(total_duration) == total_duration - Sec(60)

\* max(total_duration - 60, total_duration * 0.95) (line 164)
default_outro(total_duration) ==
    Max(total_duration - Sec(60), (total_duration * 19) \div 20)

\* _detect_outro
_detect_outro(s) ==
    LET total_duration == total_duration_of(s)
        check_duration == Min(Sec(300), total_duration)
        outro_start == total_duration - check_duration
        hit == outro_scan(s, Range(IntSec(total_duration - Sec(30)), IntSec(outro_start), -10),
                          1, total_duration)
    IN IF hit # None THEN hit.val ELSE default_outro(total_duration)

\* _detect_ads reporting the first sample_duration seconds of the main part.
_detect_ads_guessing(intro_end, outro_start, sample_duration) ==
    <<[start |-> intro_end, end |-> Min(intro_end + Sec(sample_duration), outro_start)]>>

\* _detect_ads: the detection is a TODO; the list stays empty.
_detect_ads(intro_end, outro_start, sample_duration) == <<>>

\* black_loop recording also the run of black samples that is still open after
\* the last sample, up to one sampling step after it.
RECURSIVE black_loop_closing(_, _, _, _, _)
black_loop_closing(s, ts, k, current_black_start, black_segments) ==
    IF k > Len(ts)
    THEN IF current_black_start # None
         THEN Append(black_segments,
                     [start |-> Sec(current_black_start.val),
                      end |-> Sec(ts[Len(ts)] + 5),
                      duration |-> Sec(ts[Len(ts)] + 5 - current_black_start.val)])
         ELSE black_segments
    ELSE LET t == ts[k]
         IN IF _is_black_frame(s, Sec(t))
            THEN black_loop_closing(s, ts, k + 1,
                     IF current_black_start = None THEN Some(t) ELSE current_black_start,
                     black_segments)
            ELSE black_loop_closing(s, ts, k + 1, None,
                     IF current_black_start # None /\ t - current_black_start.val >= 2
                     THEN Append(black_segments,
                                 [start |-> Sec(current_black_start.val),
                                  end |-> Sec(t),
                                  duration |-> Sec(t - current_black_start.val)])
                     ELSE black_segments)

\* _detect_black_frames: a sample every 5 seconds; a run of black samples is
\* recorded at the first non-black sample after it, when at least 2 seconds long.
RECURSIVE black_loop(_, _, _, _, _)
black_loop(s, ts, k, current_black_start, black_segments) ==
    IF k > Len(ts) THEN black_segments
    ELSE LET t == ts[k]
         IN IF _is_black_frame(s, Sec(t))
            THEN black_loop(s, ts, k + 1,
                            IF current_black_start = None THEN Some(t) ELSE current_black_start,
                            black_segments)
            ELSE black_loop(s, ts, k + 1, None,
                     IF current_black_start # None /\ t - current_black_start.val >= 2
                     THEN Append(black_segments,
                                 [start |-> Sec(current_black_start.val),
                                  end |-> Sec(t),
                                  duration |-> Sec(t - current_black_start.val)])
                     ELSE black_segments)

\* _detect_black_frames sampling from the start of the video.
_detect_black_frames_from_zero(s, start, end) ==
    black_loop(s, Range(0, IntSec(end), 5), 1, None, <<>>)

_detect_black_frames(s, start, end) ==
    black_loop(s, Range(IntSec(start), IntSec(end), 5), 1, None, <<>>)

\* detect_content_boundaries with the main part cut to a non-negative length.
detect_content_boundaries_clamped(self, s, sample_duration) ==
    LET total_duration == total_duration_of(s)
        intro_end == _detect_intro(s)
        outro_start == _detect_outro(s)
        ad_segments == _detect_ads(intro_end, outro_start, sample_duration)
        black_segments == _detect_black_frames(s, intro_end, outro_start)
    IN [self |-> [fps |-> s.fps, frame_count |-> s.frame_count],
        ret |-> [total_duration |-> total_duration,
                 intro |-> [start |-> 0, end |-> intro_end, duration |-> intro_end],
                 outro |-> [start |-> outro_start, end |-> total_duration,
                            duration |-> total_duration - outro_start],
                 main_content |-> [start |-> intro_end, end |-> Max(intro_end, outro_start),
                                   duration |-> Max(0, outro_start - intro_end)],
                 ads |-> ad_segments,
                 black_frames |-> black_segments]]

\* detect_content_boundaries
detect_content_boundaries(self, s, sample_duration) ==
    LET total_duration == total_duration_of(s)
        intro_end == _detect_intro(s)
        outro_start == _detect_outro(s)
        ad_segments == _detect_ads(intro_end, outro_start, sample_duration)
        black_segments == _detect_black_frames(s, intro_end, outro_start)
    IN [self |-> [fps |-> s.fps, frame_count |-> s.frame_count],
        ret |-> [total_duration |-> total_duration,
                 intro |-> [start |-> 0, end |-> intro_end, duration |-> intro_end],
                 outro |-> [start |-> outro_start, end |-> total_duration,
                            duration |-> total_duration - outro_start],
                 main_content |-> [start |-> intro_end, end |-> outro_start,
                                   duration |-> outro_start - intro_end],
                 ads |-> ad_segments,
                 black_frames |-> black_segments]]

(***************************************************************************)
(* Videos and arguments                                                    *)
(***************************************************************************)
MaxFrames == 3

ShortFrames == {Black, Dim, Plain, Bright}

\* Every video of 1..MaxFrames stills, each shown for len frames.
RunsOf(len) ==
    UNION {[1..n -> {Still(len, f) : f \in ShortFrames}] : n \in 1..MaxFrames}

\* Short videos at 1 and 2 frames per second; decoding may fail from any frame on.
ShortSources ==
    UNION {{Source(fps, runs, readable) : readable \in 0..RunsLen(runs)} :
           fps \in {1, 2}, runs \in RunsOf(1)}

\* Videos of 4 to 4 * MaxFrames seconds at 1 frame per second.
MediumSources == {Source(1, runs, RunsLen(runs)) : runs \in RunsOf(4)}

\* 120 seconds with hard cuts at 40 s and 80 s.
ScenarioA == Source(1, <<Still(40, Plain), Still(40, Bright), Still(40, Plain)>>, 120)

\* Feature-like videos: black lead, an opening that cuts every second, the
\* main part, a blackout, rolling credits; lengths in seconds.
Feature(fps, black0, lead, main, blackout, credits) ==
    LET runs == SelectSeq(<<Still(black0 * fps, Black),
                            Run(lead * fps, Plain, Bright),
                            Still(main * fps, Plain),
                            Still(blackout * fps, Black),
                            Run(credits * fps, Black, Credit)>>,
                          LAMBDA r : r.n > 0)
    IN Source(fps, runs, RunsLen(runs))

LongSources ==
    {Feature(fps, black0, lead, main, blackout, credits) :
        fps \in {1, 5}, black0 \in {0, 5}, lead \in {0, 10, 20}, main \in {5, 30, 100, 200},
        blackout \in {0, 10}, credits \in {0, 40, 100}}

\* Videos that alternate normal and black passages, starting with a normal one
\* (or a black one when the first length is 0); lengths in seconds.
Alternating(fps, lens) ==
    LET runs == SelectSeq([k \in 1..Len(lens) |->
                              Still(lens[k] * fps, IF k % 2 = 1 THEN Plain ELSE Black)],
                          LAMBDA r : r.n > 0)
    IN Source(fps, runs, RunsLen(runs))

BlackoutSources ==
    {Alternating(fps, lens) :
        fps \in {1, 2},
        lens \in {<<0, 5, 100>>, <<0, 5, 20>>, <<35, 10, 20, 10, 30>>, <<5, 10, 20, 10, 100>>,
                  <<40, 10, 10, 10, 60>>, <<32, 3, 60>>, <<35, 10, 20, 10, 20, 5, 40>>,
                  <<40, 5, 5, 5, 5, 5, 100>>, <<35, 100>>, <<31, 4, 5, 10, 80>>}}

\* Videos whose duration is not a whole number of seconds: 40.5 s at 2 fps
\* going black after 9.5 s, after 30 s, or never.
FractionalSources ==
    {Source(2, <<Still(19, Plain), Still(62, Black)>>, 81),
     Source(2, <<Still(60, Plain), Still(21, Black)>>, 81),
     Source(2, <<Still(81, Plain)>>, 81)}

\* 40-second videos whose cut frequency drops more than once: 9, 0, 9, 0 and
\* 9, 5, 2, 0 cuts in the four 10-second windows.
IntroSources ==
    {Source(1, <<Run(10, Plain, Bright), Still(10, Plain),
                 Run(10, Plain, Bright), Still(10, Plain)>>, 40),
     Source(1, <<Run(10, Plain, Bright), Run(6, Plain, Bright), Still(4, Bright),
                 Run(3, Plain, Bright), Still(17, Plain)>>, 40)}

\* An opening that cuts every second, then a black passage from 35 s to 45 s
\* and a black passage from 65 s that lasts to the end.
TrailingBlackSources ==
    {Source(fps, <<Run(10 * fps, Plain, Bright), Still(25 * fps, Plain),
                   Still(10 * fps, Black), Still(20 * fps, Plain),
                   Still(tail * fps, Black)>>, (65 + tail) * fps) :
        fps \in {1, 2}, tail \in {40, 100}}

SceneDurations == {0, 1, 2, 600}

Thresholds == {30, 100}

SampleDurations == {60, 600}

HighlightCounts == {0, 1, 2, 10}

\* <<min_duration, max_duration>>
HighlightDurations == {<<3, 30>>, <<1, 2>>, <<5, 30>>, <<3, 2>>}

(***************************************************************************)
(* The calls                                                               *)
(***************************************************************************)
Idle == [op |-> "none", args |-> <<>>, ret |-> <<>>, raised |-> None]

InitOn(sources) ==
    /\ src \in sources
    /\ sa = [fps |-> 0, frame_count |-> 0]
    /\ cd = [fps |-> 0, frame_count |-> 0]
    /\ hd = [highlights |-> <<>>]
    /\ scenes = None
    /\ call = Idle
    /\ run = None
    /\ ref = None

\* detect_scenes, from the call to the first loop test (lines 33-43).
BeginDetectScenes ==
    \E max_duration \in SceneDurations, threshold \in Thresholds :
        /\ run = None
        /\ call = Idle
        /\ sa' = scene_open(sa, src)
        /\ run' = [max_duration |-> max_duration,
                   threshold |-> threshold,
                   max_frames |-> max_frames_of(sa', max_duration),
                   frame_idx |-> 0,
                   st |-> scene_init]
        /\ UNCHANGED <<src, cd, hd, scenes, call, ref>>

\* One iteration of the sampling loop on a frame that decodes (lines 45-80).
SampleScene ==
    /\ run # None
    /\ run.frame_idx < run.max_frames
    /\ read(src, run.frame_idx) # NoFrame
    /\ run' = [run EXCEPT !.frame_idx = @ + sa.fps,
                          !.st = scene_step(sa.fps, run.threshold, run.frame_idx,
                                            read(src, run.frame_idx), run.st)]
    /\ UNCHANGED <<src, sa, cd, hd, scenes, call, ref>>

\* The loop ends (range exhausted, or the break of line 50); the last scene is
\* flushed and the list returned (lines 82-97).
ReturnScenes ==
    /\ run # None
    /\ \/ run.frame_idx >= run.max_frames
       \/ read(src, run.frame_idx) = NoFrame
    /\ LET ret == scene_flush(sa.fps, run.max_frames, run.st)
       IN /\ call' = [op |-> "detect_scenes",
                      args |-> <<run.max_duration, run.threshold>>, ret |-> ret,
                      raised |-> None]
          /\ scenes' = Some(ret)
    /\ run' = None
    /\ UNCHANGED <<src, sa, cd, hd, ref>>

\* SceneAnalyzer.detect_scenes(max_duration, threshold) as one step; the caller
\* keeps the list.
DoDetectScenes(max_duration, threshold) ==
    LET r == detect_scenes(sa, src, max_duration, threshold)
    IN /\ sa' = r.self
       /\ scenes' = Some(r.ret)
       /\ call' = [op |-> "detect_scenes", args |-> <<max_duration, threshold>>,
                   ret |-> r.ret, raised |-> None]
       /\ UNCHANGED <<src, cd, hd, run>>

\* ContentDetector.detect_content_boundaries(sample_duration)
DoDetectContentBoundaries(sample_duration) ==
    LET r == detect_content_boundaries(cd, src, sample_duration)
    IN /\ cd' = r.self
       /\ call' = [op |-> "detect_content_boundaries", args |-> <<sample_duration>>,
                   ret |-> r.ret, raised |-> None]
       /\ UNCHANGED <<src, sa, hd, scenes, run>>

\* HighlightDetector.detect_highlights(scenes, max_highlights, min_duration, max_duration)
DoDetectHighlights(scene_arg, max_highlights, min_duration, max_duration) ==
    LET r == detect_highlights(hd, src, scene_arg, max_highlights, min_duration, max_duration)
    IN /\ hd' = r.self
       /\ call' = [op |-> "detect_highlights",
                   args |-> <<scene_arg, max_highlights, min_duration, max_duration>>,
                   ret |-> r.ret, raised |-> r.raised]
       /\ UNCHANGED <<src, sa, cd, scenes, run>>

\* analyze_video, step 2: detect_scenes(max_duration=duration_limit, threshold=30.0)
AnalyzeScenes ==
    \E duration_limit \in {2, 600} :
        /\ call = Idle
        /\ DoDetectScenes(duration_limit, 30)
        /\ UNCHANGED ref

DetectContentBoundaries ==
    \E sample_duration \in SampleDurations :
        DoDetectContentBoundaries(sample_duration) /\ UNCHANGED ref

\* detect_highlights on the video alone, or (analyze_video, step 5) on the scenes
\* detected before.
DetectHighlights ==
    \E scene_arg \in {None, scenes}, max_highlights \in HighlightCounts,
       d \in HighlightDurations :
        /\ call.op # "detect_highlights"
        /\ DoDetectHighlights(scene_arg, max_highlights, d[1], d[2])
        /\ UNCHANGED ref

SceneNext == BeginDetectScenes \/ SampleScene \/ ReturnScenes

SceneSpec == InitOn(ShortSources \cup {ScenarioA}) /\ [][SceneNext]_vars

BoundarySpec ==
    InitOn(ShortSources \cup LongSources \cup BlackoutSources \cup FractionalSources
           \cup IntroSources \cup TrailingBlackSources)
    /\ [][DetectContentBoundaries]_vars

HighlightNext == AnalyzeScenes \/ DetectHighlights

HighlightSpec == InitOn(ShortSources \cup MediumSources) /\ [][HighlightNext]_vars

(***************************************************************************)
(* Properties of detect_scenes                                             *)
(***************************************************************************)
ScenesReturned == call.op = "detect_scenes"

\* The analysed duration max_frames / fps of the returned call, in ticks.
AnalyzedDuration ==
    FrameTime(src.fps, Min(call.args[1] * src.fps, src.frame_count))

\* The frame indices the loop of the returned call visits, and how many of
\* them it read before the range or the decodable frames ran out.
SampleIdxs == Range(0, Min(call.args[1] * src.fps, src.frame_count), src.fps)

SamplesRead ==
    Cardinality({k \in 1..Len(SampleIdxs) :
                    \A j \in 1..k : read(src, SampleIdxs[j]) # NoFrame})

\* The times of the samples read whose mean absolute difference from the
\* previous sample is above the threshold.
CutTimes ==
    {FrameTime(src.fps, SampleIdxs[k]) : k \in
        {k \in 2..SamplesRead :
            mean_absdiff(read(src, SampleIdxs[k - 1]), read(src, SampleIdxs[k]))
                > call.args[2]}}

\* C1: the list detect_scenes returns is gapless and ordered: the first scene
\* starts at 0, every scene ends where the next one starts, starts increase,
\* and the last scene ends at the analysed duration max_frames / fps.
C1_ScenesGapless ==
    (ScenesReturned /\ call.ret # <<>>) =>
        /\ call.ret[1].start = 0
        /\ \A i \in 1..(Len(call.ret) - 1) :
              /\ call.ret[i].end = call.ret[i + 1].start
              /\ call.ret[i].start < call.ret[i + 1].start
        /\ call.ret[Len(call.ret)].end = AnalyzedDuration

\* A call that returned three scenes or more.
C1_Witness == ScenesReturned /\ Len(call.ret) >= 3

\* The boundaries between the returned scenes are exactly the cut samples.
BoundariesAreCuts ==
    /\ {call.ret[i].end : i \in 1..(Len(call.ret) - 1)} = CutTimes
    /\ {call.ret[i].start : i \in 2..Len(call.ret)} = CutTimes

\* Scenario A: 120 s, hard cuts at 40 s and 80 s, threshold 30, gives exactly
\* the scenes [0,40), [40,80), [80,120).
ScenarioAHolds ==
    (src = ScenarioA /\ call.args = <<600, 30>>) =>
        [i \in 1..Len(call.ret) |-> <<call.ret[i].start, call.ret[i].end>>]
            = <<<<0, Sec(40)>>, <<Sec(40), Sec(80)>>, <<Sec(80), Sec(120)>>>>

\* C10 as stated: boundaries exactly at the cut samples, and k cut samples give
\* k + 1 scenes on every call.
C10_AsStated ==
    ScenesReturned =>
        /\ BoundariesAreCuts
        /\ Len(call.ret) = Cardinality(CutTimes) + 1
        /\ ScenarioAHolds

\* C10 (amended): detect_scenes places a boundary exactly at the times of the
\* samples whose difference from the previous sample is above the threshold;
\* k such samples give k + 1 scenes when at least one sample was read, and no
\* scene when none was; Scenario A gives [0,40), [40,80), [80,120).
C10_CutsAreBoundaries ==
    ScenesReturned =>
        /\ BoundariesAreCuts
        /\ SamplesRead >= 1 => Len(call.ret) = Cardinality(CutTimes) + 1
        /\ SamplesRead = 0 => call.ret = <<>>
        /\ ScenarioAHolds

\* The call of Scenario A has returned.
C10_Witness == ScenesReturned /\ src = ScenarioA /\ call.args = <<600, 30>>

(***************************************************************************)
(* Properties of detect_content_boundaries                                 *)
(***************************************************************************)
BoundariesReturned == call.op = "detect_content_boundaries"

\* C2: every result of detect_content_boundaries has
\* 0 <= intro.end <= outro.start <= total_duration.
C2_BoundariesOrdered ==
    BoundariesReturned =>
        /\ 0 <= call.ret.intro.end
        /\ call.ret.intro.end <= call.ret.outro.start
        /\ call.ret.outro.start <= call.ret.total_duration

(***************************************************************************)
(* Properties of detect_highlights                                         *)
(***************************************************************************)
HighlightsReturned == call.op = "detect_highlights"

\* The arguments of the returned call.
ArgScenes == call.args[1]

ArgMaxHighlights == call.args[2]

ArgMinDuration == call.args[3]

ArgMaxDuration == call.args[4]

SceneDriven == ArgScenes # None /\ ArgScenes.val # <<>>

\* C3: no two highlights of a returned list overlap in time.
C3_NoOverlap ==
    HighlightsReturned =>
        \A i, j \in 1..Len(call.ret) :
            i # j => \/ call.ret[i].end <= call.ret[j].start
                     \/ call.ret[j].end <= call.ret[i].start

\* clamp(10, min_duration, max_duration), in ticks
Clamp10 == Max(Sec(ArgMinDuration), Min(Sec(10), Sec(ArgMaxDuration)))

\* C4: every returned highlight has end > start and a duration end - start in
\* [min_duration, max_duration]; in raw-video mode it is clamp(10, min, max).
C4_DurationInRange ==
    HighlightsReturned =>
        \A i \in 1..Len(call.ret) :
            /\ call.ret[i].end > call.ret[i].start
            /\ Sec(ArgMinDuration) <= call.ret[i].end - call.ret[i].start
            /\ call.ret[i].end - call.ret[i].start <= Sec(ArgMaxDuration)
            /\ ~SceneDriven => call.ret[i].end - call.ret[i].start = Clamp10

\* C5: the returned list is sorted by start ascending.
C5_SortedByStart ==
    HighlightsReturned =>
        \A i \in 1..(Len(call.ret) - 1) : call.ret[i].start <= call.ret[i + 1].start

\* C6: the highlight at position i (from 0) of the returned list has id i.
C6_IdsInOrder ==
    HighlightsReturned =>
        \A i \in 1..Len(call.ret) : call.ret[i].id = i - 1

\* C8: a call with max_duration < min_duration reports an invalid
\* configuration to the caller instead of returning highlights.
C8_MisuseReported ==
    (HighlightsReturned /\ ArgMaxDuration < ArgMinDuration) =>
        /\ call.raised # None
        /\ call.ret = <<>>

Track == ref' \in (IF ref = None THEN {None, Some(call')} ELSE {ref})

TrackedDetectScenes ==
    \E max_duration \in {2, 20} : DoDetectScenes(max_duration, 30) /\ Track

TrackedDetectContentBoundaries ==
    \E sample_duration \in SampleDurations :
        DoDetectContentBoundaries(sample_duration) /\ Track

TrackedDetectHighlights ==
    \E scene_arg \in {None, scenes}, max_highlights \in {1, 2},
       d \in {<<3, 30>>, <<1, 2>>} :
        DoDetectHighlights(scene_arg, max_highlights, d[1], d[2]) /\ Track

RepeatSources ==
    {Source(1, <<Still(1, Black), Still(1, Plain), Still(1, Bright)>>, 3),
     Source(1, <<Still(1, Plain), Still(1, Black), Still(1, Plain)>>, 2),
     Source(2, <<Still(2, Dim), Still(2, Bright), Still(1, Black)>>, 5),
     Source(1, <<Still(4, Plain), Still(4, Black)>>, 8),
     Feature(1, 0, 10, 5, 5, 20)}

RepeatNext ==
    TrackedDetectScenes \/ TrackedDetectContentBoundaries \/ TrackedDetectHighlights

RepeatSpec == InitOn(RepeatSources) /\ [][RepeatNext]_vars

BlackAt(idx) == read(src, idx) # NoFrame /\ mean_gray(read(src, idx)) < 20

\* The first frames of the maximal runs of black frames.
BlackRunStarts ==
    {a \in 0..(src.frame_count - 1) : BlackAt(a) /\ (a = 0 \/ ~BlackAt(a - 1))}

\* The frame after the run of black frames that starts at a.
BlackRunEnd(a) ==
    CHOOSE b \in (a + 1)..src.frame_count :
        /\ \A i \in a..(b - 1) : BlackAt(i)
        /\ b = src.frame_count \/ ~BlackAt(b)

\* C11: every run of black frames of 2 seconds or more, a run at the start of
\* the video included, is a segment {start, end, duration} of black_frames.
C11_BlackRunsReported ==
    BoundariesReturned =>
        \A a \in BlackRunStarts :
            LET start == FrameTime(src.fps, a)
                end == FrameTime(src.fps, BlackRunEnd(a))
            IN end - start >= Sec(2) =>
                   \E i \in 1..Len(call.ret.black_frames) :
                       call.ret.black_frames[i] =
                           [start |-> start, end |-> end, duration |-> end - start]

(***************************************************************************)
(* Properties of the intro, the ads and the main part                      *)
(***************************************************************************)
\* The cut frequencies of the 10-second windows of the first
\* min(180, total_duration) seconds.
IntroFrequencies ==
    _analyze_scene_change_frequency(src, 0, Min(Sec(180), total_duration_of(src)))

\* No window has a cut frequency below half of the previous window's.
NoFrequencyDrop ==
    \A i \in 2..Len(IntroFrequencies) :
        ~frequency_dropped(IntroFrequencies[i], IntroFrequencies[i - 1])

\* C12: without a drop of the cut frequency, intro.end is 30 seconds, or the
\* total duration when the video is shorter than 30 seconds.
C12_DefaultIntro ==
    (BoundariesReturned /\ NoFrequencyDrop) =>
        call.ret.intro.end =
            (IF call.ret.total_duration < Sec(30) THEN call.ret.total_duration ELSE Sec(30))

\* A video shorter than 30 seconds, of two windows without a drop, was analysed.
C12_Witness ==
    /\ BoundariesReturned
    /\ NoFrequencyDrop
    /\ Len(IntroFrequencies) >= 2
    /\ call.ret.total_duration < Sec(30)

\* C16: the ads list of every result is empty.
C16_NoAds == BoundariesReturned => call.ret.ads = <<>>

\* A video of 100 seconds or more with a black passage in its main part was
\* analysed with sample_duration 600.
C16_Witness ==
    /\ BoundariesReturned
    /\ call.args = <<600>>
    /\ call.ret.total_duration >= Sec(100)
    /\ call.ret.black_frames # <<>>

\* C17: main_content starts at intro.end and ends at outro.start.
C17_MainBetweenIntroAndOutro ==
    BoundariesReturned =>
        /\ call.ret.main_content.start = call.ret.intro.end
        /\ call.ret.main_content.end = call.ret.outro.start

\* A result whose intro ends after its outro starts.
C17_Witness ==
    /\ BoundariesReturned
    /\ call.ret.intro.end > call.ret.outro.start
    /\ call.ret.total_duration >= Sec(20)

\* C18: the black-frame segments are ordered by start, pairwise disjoint,
\* inside [intro.end, outro.start], and each has duration = end - start >= 2 s.
C18_BlackSegmentsWellFormed ==
    BoundariesReturned =>
        /\ \A i \in 1..Len(call.ret.black_frames) :
               /\ call.ret.intro.end <= call.ret.black_frames[i].start
               /\ call.ret.black_frames[i].end <= call.ret.outro.start
               /\ call.ret.black_frames[i].duration =
                      call.ret.black_frames[i].end - call.ret.black_frames[i].start
               /\ call.ret.black_frames[i].duration >= Sec(2)
        /\ \A i \in 1..(Len(call.ret.black_frames) - 1) :
               call.ret.black_frames[i].end <= call.ret.black_frames[i + 1].start

\* Two black passages or more were reported.
C18_Witness == BoundariesReturned /\ Len(call.ret.black_frames) >= 2

(***************************************************************************)
(* detect_highlights on scene lists given by the caller                    *)
(***************************************************************************)
\* A scene dict as a caller may pass it: the keys of detect_scenes plus the
\* dialogues attached to the scene; times in seconds.
GivenScene(id, start, motion, faces, dialogues, duration, brightness) ==
    [id |-> id, start |-> Sec(start), end |-> Sec(start + duration),
     duration |-> Sec(duration), brightness |-> Frac(brightness, 1),
     motion |-> Frac(motion, 1), faces |-> faces,
     dialogues |-> [k \in 1..dialogues |-> "line"], description |-> <<>>]

\* The two scenes of scenario D, at the given positions and start times.
ActionScene(id, start) == GivenScene(id, start, 25, 2, 0, 10, 100)

SlowScene(id, start) == GivenScene(id, start, 5, 0, 0, 40, 100)

\* Lists of one scene over the band limits of every weight, and lists of five
\* scenes holding the two scenes of scenario D.
GivenSceneLists ==
    {<<GivenScene(0, 0, motion, faces, dialogues, duration, brightness)>> :
        motion \in {5, 10, 11, 20, 21, 25}, faces \in {0, 2}, dialogues \in {0, 1, 3},
        duration \in {2, 3, 5, 10, 20, 30, 40}, brightness \in {49, 50, 150, 151}}
    \cup
    {<<GivenScene(0, 0, 15, 0, 0, 4, b), SlowScene(1, 4),
       ActionScene(2, 44), GivenScene(3, 54, 11, 1, 0, 25, 160),
       GivenScene(4, 79, m, 0, 0, 2, 100)>> : b \in {40, 100}, m \in {0, 25}}
    \cup
    {<<ActionScene(0, 0), SlowScene(1, 10)>>, <<SlowScene(0, 0), ActionScene(1, 40)>>}

ScoreInit ==
    /\ src = ScenarioA
    /\ sa = [fps |-> 0, frame_count |-> 0]
    /\ cd = [fps |-> 0, frame_count |-> 0]
    /\ hd = [highlights |-> <<>>]
    /\ scenes \in {Some(l) : l \in GivenSceneLists}
    /\ call = Idle
    /\ run = None
    /\ ref = None

\* detect_highlights(scenes=scenes, max_highlights=...)
ScoreScenes ==
    \E max_highlights \in {1, 2, 10} :
        /\ call = Idle
        /\ DoDetectHighlights(scenes, max_highlights, 3, 30)
        /\ UNCHANGED ref

ScoreSpec == ScoreInit /\ [][ScoreScenes]_vars

\* The weighted sum as documented.
DocumentedScore(scene) ==
    (IF scene.motion.num > 20 * scene.motion.den THEN 30
     ELSE IF scene.motion.num > 10 * scene.motion.den THEN 20 ELSE 5)
    + 15 * scene.faces
    + 10 * Len(scene.dialogues)
    + (IF Sec(5) <= scene.duration /\ scene.duration <= Sec(20) THEN 20
       ELSE IF Sec(3) <= scene.duration /\ scene.duration <= Sec(30) THEN 10 ELSE 0)
    + (IF /\ scene.brightness.num >= 50 * scene.brightness.den
          /\ scene.brightness.num <= 150 * scene.brightness.den THEN 10 ELSE 0)

\* The scene of the argument list a returned highlight was made from.
SceneOf(h) ==
    CHOOSE k \in 1..Len(ArgScenes.val) :
        ArgScenes.val[k].start = h.start /\ ArgScenes.val[k].end = h.end

\* The highlight was made from the scene of scenario D with motion 25, 2 faces
\* and duration 10, or from the one with motion 5, no face and duration 40.
FromActionScene(h) ==
    ArgScenes.val[SceneOf(h)] = ActionScene(SceneOf(h) - 1, h.start \div TicksPerSecond)

FromSlowScene(h) ==
    ArgScenes.val[SceneOf(h)] = SlowScene(SceneOf(h) - 1, h.start \div TicksPerSecond)

\* C13: the score of every highlight made from a scene is the documented
\* weighted sum of that scene, and where the list holds a scene with motion 25,
\* 2 faces and duration 10, a highlight made from a scene with motion 5, no
\* face and duration 40 comes after the highlight made from the former.
C13_DocumentedScore ==
    (HighlightsReturned /\ SceneDriven) =>
        /\ \A i \in 1..Len(call.ret) :
               call.ret[i].score = DocumentedScore(ArgScenes.val[SceneOf(call.ret[i])])
        /\ \A j \in 1..Len(call.ret) :
               (/\ FromSlowScene(call.ret[j])
                /\ \E k \in 1..Len(ArgScenes.val) :
                       ArgScenes.val[k] =
                           ActionScene(k - 1, ArgScenes.val[k].start \div TicksPerSecond))
               => \E i \in 1..(j - 1) :
                      /\ FromActionScene(call.ret[i])
                      /\ call.ret[i].score > call.ret[j].score

\* Five scenes, the third with motion 25, 2 faces and duration 10, were scored
\* and the highlight made from the third is the first of two.
C13_Witness ==
    /\ HighlightsReturned
    /\ Len(ArgScenes.val) = 5
    /\ Len(call.ret) = 2
    /\ call.ret[1].start = Sec(44)
    /\ call.ret[1].score = 90

(***************************************************************************)
(* A frame that does not decode in the middle of detect_scenes             *)
(***************************************************************************)
\* C14: when a read fails after the first sample and before the range is
\* exhausted, detect_scenes returns without raising; the returned list is the
\* scenes closed so far, unchanged, followed by one last scene.
C14_FailureTruncates ==
    [][(/\ run # None
        /\ run' = None
        /\ 0 < run.frame_idx
        /\ run.frame_idx < run.max_frames)
       => /\ call'.op = "detect_scenes"
          /\ call'.raised = None
          /\ Len(call'.ret) = Len(run.st.scenes) + 1
          /\ SubSeq(call'.ret, 1, Len(run.st.scenes)) = run.st.scenes
          /\ call'.ret[Len(call'.ret)].start = FrameTime(sa.fps, run.st.scene_start)]_vars

\* detect_scenes returned after a failed read that followed a cut: fewer
\* samples were read than the range holds, and two scenes or more came back.
C14_Witness ==
    /\ ScenesReturned
    /\ SamplesRead >= 2
    /\ SamplesRead < Len(SampleIdxs)
    /\ Len(call.ret) >= 2

(***************************************************************************)
(* Construction on a file that may be missing                              *)
(***************************************************************************)
\* A path with no file behind it: Path.exists() is False, cv2.VideoCapture
\* does not open and every property of the capture reads 0.
Missing == [fps |-> 0, frame_count |-> 0, readable |-> 0, runs |-> <<>>, missing |-> TRUE]

\* self.video_path.exists()
exists(s) == "missing" \notin DOMAIN s

Raised(op, args, error) == [op |-> op, args |-> args, ret |-> <<>>, raised |-> Some(error)]

Returned(op, args, ret) == [op |-> op, args |-> args, ret |-> ret, raised |-> None]

\* No analyzer and no detector exists yet.
ConstructInit ==
    /\ src \in ShortSources \cup {Missing}
    /\ sa = None
    /\ cd = None
    /\ hd = None
    /\ scenes = None
    /\ call = Idle
    /\ run = None
    /\ ref = None

\* MovieAnalyzerPro(video_path): the check of lines 32-33, then the modules of
\* lines 36-41, of which SceneAnalyzer and HighlightDetector are detectors.
Construct ==
    /\ call = Idle
    /\ sa = None
    /\ IF ~exists(src)
       THEN /\ call' = Raised("MovieAnalyzerPro", <<>>, "FileNotFoundError")
            /\ UNCHANGED <<sa, hd>>
       ELSE /\ sa' = [fps |-> 0, frame_count |-> 0]
            /\ hd' = [highlights |-> <<>>]
            /\ call' = Returned("MovieAnalyzerPro", <<>>, <<>>)
    /\ UNCHANGED <<src, cd, scenes, run, ref>>

\* analyze_video(duration_limit): the scenes (step 2) and the highlights made
\* from them (step 5); the other steps do not touch the detectors.
AnalyzeVideo ==
    \E duration_limit \in {2, 600} :
        /\ call.op = "MovieAnalyzerPro"
        /\ sa # None
        /\ LET detected == detect_scenes(sa, src, duration_limit, 30)
               highlights == detect_highlights(hd, src, Some(detected.ret), 10, 3, 30)
           IN /\ sa' = detected.self
              /\ hd' = highlights.self
              /\ scenes' = Some(detected.ret)
              /\ call' = Returned("analyze_video", <<duration_limit>>,
                                  [scenes |-> detected.ret, highlights |-> highlights.ret])
        /\ UNCHANGED <<src, cd, run, ref>>

\* test_content_detection(video_path), the entry point of content_detector.py:
\* a ContentDetector is created and run with no check of the path. On a capture
\* that did not open, fps is 0.0 and frame_count / fps raises (line 43), after
\* the fields were set from the capture (lines 38-42).
TestContentDetection ==
    /\ cd = None
    /\ IF src.fps = 0
       THEN /\ cd' = [fps |-> 0, frame_count |-> 0]
            /\ call' = Raised("test_content_detection", <<>>, "ZeroDivisionError")
       ELSE LET r == detect_content_boundaries([fps |-> 0, frame_count |-> 0], src, 600)
            IN /\ cd' = r.self
               /\ call' = Returned("test_content_detection", <<>>, r.ret)
    /\ UNCHANGED <<src, sa, hd, scenes, run, ref>>

ConstructNext == Construct \/ AnalyzeVideo \/ TestContentDetection

ConstructSpec == ConstructInit /\ [][ConstructNext]_vars

\* C15: while the file is missing no detector is created or run, the only
\* error raised is FileNotFoundError, and no call returns a result.
C15_FailsBeforeDetectors ==
    ~exists(src) =>
        /\ sa = None
        /\ cd = None
        /\ hd = None
        /\ call # Idle => (call.raised = Some("FileNotFoundError") /\ call.ret = <<>>)

\* MovieAnalyzerPro on a missing file: FileNotFoundError, and neither a
\* SceneAnalyzer nor a HighlightDetector was created.
ConstructionFailsFast ==
    (~exists(src) /\ call.op = "MovieAnalyzerPro") =>
        /\ call.raised = Some("FileNotFoundError")
        /\ sa = None
        /\ hd = None

(***************************************************************************)
(* The operations of each detector on its decode handle                    *)
(*                                                                         *)
(* A detector working alone on the source s performs a fixed sequence of   *)
(* handle operations; each operator below lists them in program order.     *)
(* A read carries the position the detector has just asked for.            *)
(***************************************************************************)
\* cap.set(cv2.CAP_PROP_POS_FRAMES, pos)
SetOp(pos) == [op |-> "set", pos |-> pos]

\* ret, frame = cap.read(), after the handle was moved to at
ReadOp(at) == [op |-> "read", at |-> at]

\* next_idx = cap.get(cv2.CAP_PROP_POS_FRAMES)
GetOp == [op |-> "get"]

\* cap.set(cv2.CAP_PROP_POS_FRAMES, next_idx)
SetNextOp == [op |-> "set_next"]

\* cap.set(cv2.CAP_PROP_POS_FRAMES, next_idx - 1)
SetPrevOp == [op |-> "set_prev"]

SeekRead(pos) == <<SetOp(pos), ReadOp(pos)>>

RECURSIVE Flatten(_)
Flatten(ss) ==
    IF ss = <<>> THEN <<>>
    ELSE IF Len(ss) = 1 THEN ss[1]
    ELSE Flatten(SubSeq(ss, 1, Len(ss) \div 2))
         \o Flatten(SubSeq(ss, (Len(ss) \div 2) + 1, Len(ss)))

\* How many elements a loop over xs runs through when it stops after the first
\* element for which stop holds (that element included).
RunLength(xs, stops) ==
    LET before == Cardinality({k \in 1..Len(xs) : \A j \in 1..k : ~stops[j]})
    IN Min(before + 1, Len(xs))

\* A loop "seek, read, break when the read fails" over the frame indices idxs.
SeekReadUntilFailure(s, idxs) ==
    LET n == RunLength(idxs, [k \in 1..Len(idxs) |-> read(s, idxs[k]) = NoFrame])
    IN Flatten([k \in 1..n |-> SeekRead(idxs[k])])

\* detect_scenes going back to the first frame after its last sample.
scene_ops_rewinding(s, max_duration) ==
    SeekReadUntilFailure(s, Range(0, max_frames_of(scene_open(None, s), max_duration), s.fps))
    \o SeekRead(0)

\* detect_scenes (scene_analyzer.py:45-50)
scene_ops(s, max_duration) ==
    SeekReadUntilFailure(s, Range(0, max_frames_of(scene_open(None, s), max_duration), s.fps))

\* One sample of _detect_from_video (highlight_detector.py:89-99) with its
\* _calculate_motion (lines 157-178): the frame, then the frame after it, then
\* the handle is put back when that second read succeeded.
highlight_sample_ops(s, frame_idx) ==
    SeekRead(frame_idx)
    \o (IF read(s, frame_idx) = NoFrame THEN <<>>
        ELSE <<GetOp, SetNextOp, ReadOp(frame_idx + 1)>>
             \o (IF read(s, frame_idx + 1) = NoFrame THEN <<>> ELSE <<SetPrevOp>>))

\* _detect_from_video (highlight_detector.py:88-108)
highlight_ops(s) ==
    LET idxs == Range(0, s.frame_count, s.fps)
        n == RunLength(idxs, [k \in 1..Len(idxs) |-> read(s, idxs[k]) = NoFrame])
    IN Flatten([k \in 1..n |-> highlight_sample_ops(s, idxs[k])])

\* _count_scene_changes (content_detector.py:227-232)
count_ops(s, start, end) ==
    SeekReadUntilFailure(s, Range(FrameIdxAt(s.fps, start), FrameIdxAt(s.fps, end), s.fps))

\* _analyze_scene_change_frequency (content_detector.py:212-213)
frequency_ops(s, start, end) ==
    LET ts == Range(IntSec(start), IntSec(end), 10)
    IN Flatten([k \in 1..Len(ts) |-> count_ops(s, Sec(ts[k]), Min(Sec(ts[k] + 10), end))])

\* _analyze_text_density (content_detector.py:253-256)
text_density_ops(s, start, end) ==
    LET ts == Range(IntSec(start), IntSec(end), 10)
    IN Flatten([k \in 1..Len(ts) |-> SeekRead(FrameIdxAt(s.fps, Sec(ts[k])))])

\* _detect_intro (content_detector.py:112-118)
intro_ops(s) ==
    LET max_intro_duration == Min(Sec(180), total_duration_of(s))
    IN frequency_ops(s, 0, max_intro_duration) \o text_density_ops(s, 0, max_intro_duration)

\* _has_rolling_credits (content_detector.py:280-282)
credits_ops(s, time) ==
    Flatten([i \in 1..5 |-> SeekRead(FrameIdxAt(s.fps, time) + (i - 1) * (s.fps \div 5))])

\* _is_black_frame (content_detector.py:304-306)
black_ops(s, time) == SeekRead(FrameIdxAt(s.fps, time))

\* _is_ending_content (content_detector.py:320-323): `and` evaluates the
\* credits only for a frame that is not black.
ending_ops(s, start, end) ==
    LET ts == Range(IntSec(start), IntSec(end), 10)
        n == RunLength(ts, [k \in 1..Len(ts) |->
                                /\ ~_is_black_frame(s, Sec(ts[k]))
                                /\ ~_has_rolling_credits(s, Sec(ts[k]))])
    IN Flatten([k \in 1..n |->
                   black_ops(s, Sec(ts[k]))
                   \o (IF _is_black_frame(s, Sec(ts[k])) THEN <<>>
                       ELSE credits_ops(s, Sec(ts[k])))])

\* One candidate of _detect_outro (content_detector.py:154-161)
outro_candidate_ops(s, time, total_duration) ==
    credits_ops(s, time)
    \o (IF _has_rolling_credits(s, time) THEN <<>>
        ELSE black_ops(s, time)
             \o (IF _is_black_frame(s, time)
                 THEN ending_ops(s, time, total_duration) ELSE <<>>))

\* _detect_outro (content_detector.py:152-161): candidates from the end towards
\* the start, until one is taken.
outro_ops(s) ==
    LET total_duration == total_duration_of(s)
        ts == Range(IntSec(total_duration - Sec(30)),
                    IntSec(total_duration - Min(Sec(300), total_duration)), -10)
        n == RunLength(ts, [k \in 1..Len(ts) |->
                                \/ _has_rolling_credits(s, Sec(ts[k]))
                                \/ /\ _is_black_frame(s, Sec(ts[k]))
                                   /\ _is_ending_content(s, Sec(ts[k]), total_duration)])
    IN Flatten([k \in 1..n |-> outro_candidate_ops(s, Sec(ts[k]), total_duration)])

\* _detect_black_frames (content_detector.py:190-191)
black_frames_ops(s, start, end) ==
    LET ts == Range(IntSec(start), IntSec(end), 5)
    IN Flatten([k \in 1..Len(ts) |-> black_ops(s, Sec(ts[k]))])

\* detect_content_boundaries (content_detector.py:48-57)
content_ops(s) ==
    intro_ops(s) \o outro_ops(s) \o black_frames_ops(s, _detect_intro(s), _detect_outro(s))

(***************************************************************************)
(* The three detectors at work on one file at the same time                *)
(*                                                                         *)
(* Each detector opens its own cv2.VideoCapture (scene_analyzer.py:34,     *)
(* content_detector.py:38, highlight_detector.py:80): a handle holds the   *)
(* decode position, and a read returns the frame of the file at the        *)
(* position of the handle it is made on.  One step is one operation on a   *)
(* handle; steps of different detectors interleave freely.  What a         *)
(* detector computes depends on the file only through the frames its reads *)
(* return, so a detector whose reads all returned the frames at the        *)
(* positions it asked for returns what it returns when it works alone.     *)
(***************************************************************************)
Detectors == {"scene", "content", "highlight"}

\* All three detectors working on one handle.
handle_of_shared(d) == "scene"

\* The handle a detector works on: the one it opened itself.
handle_of(d) == d

ParallelSources ==
    {Source(1, <<Still(1, Black), Still(1, Plain), Still(1, Bright)>>, 3),
     Source(1, <<Still(1, Black), Still(1, Plain), Still(1, Bright)>>, 2),
     Source(2, <<Still(2, Plain), Still(3, Bright)>>, 5),
     Source(5, <<Still(5, Plain), Run(150, Black, Credit)>>, 155)}

\* max_duration of the detect_scenes call
ParallelSceneDurations == {2}

NotStarted ==
    [pc |-> "idle", max_duration |-> 0, ops |-> <<>>, k |-> 1, next_idx |-> 0,
     got |-> <<>>, seeks |-> <<>>, ret |-> None]

\* The operations of detector d working alone.
ops_of(d, s, max_duration) ==
    CASE d = "scene" -> scene_ops(s, max_duration)
      [] d = "content" -> content_ops(s)
      [] d = "highlight" -> highlight_ops(s)

\* What detector d returns working alone: detect_scenes(max_duration),
\* detect_content_boundaries() and detect_highlights() with their defaults.
alone(d, s, max_duration) ==
    CASE d = "scene" -> detect_scenes(sa, s, max_duration, 30).ret
      [] d = "content" -> detect_content_boundaries(cd, s, 600).ret
      [] d = "highlight" -> detect_highlights(hd, s, None, 10, 3, 30).ret

\* Every read so far returned the frame at the position asked for.
Undisturbed(p, s) == \A j \in 1..Len(p.got) : p.got[j].frame = read(s, p.got[j].at)

ParallelInit ==
    /\ src \in ParallelSources
    /\ sa = [fps |-> 0, frame_count |-> 0]
    /\ cd = [fps |-> 0, frame_count |-> 0]
    /\ hd = [highlights |-> <<>>]
    /\ scenes = None
    /\ call = Idle
    /\ run = [proc |-> [d \in Detectors |-> NotStarted],
              cursor |-> [h \in Detectors |-> 0]]
    /\ ref = None

\* The detector is called and opens the file: cv2.VideoCapture(path) and the
\* fields read from it.
Open(d) ==
    \E max_duration \in ParallelSceneDurations :
        /\ run # None /\ "proc" \in DOMAIN run
        /\ run.proc[d].pc = "idle"
        /\ run' = [run EXCEPT !.proc[d] = [NotStarted EXCEPT
                                              !.pc = "open",
                                              !.max_duration = max_duration,
                                              !.ops = ops_of(d, src, max_duration)],
                              !.cursor[handle_of(d)] = 0]
        /\ sa' = IF d = "scene" THEN scene_open(sa, src) ELSE sa
        /\ cd' = IF d = "content" THEN [fps |-> src.fps, frame_count |-> src.frame_count]
                 ELSE cd
        /\ UNCHANGED <<src, hd, scenes, call, ref>>

\* The next operation of the detector on its handle.
HandleStep(d) ==
    /\ run # None /\ "proc" \in DOMAIN run
    /\ run.proc[d].pc = "open"
    /\ run.proc[d].k <= Len(run.proc[d].ops)
    /\ LET p == run.proc[d]
           o == p.ops[p.k]
           h == handle_of(d)
           pos == run.cursor[h]
       IN CASE o.op = "set" ->
                   run' = [run EXCEPT !.cursor[h] = o.pos,
                                      !.proc[d].seeks = Append(@, o.pos),
                                      !.proc[d].k = @ + 1]
            [] o.op = "read" ->
                   run' = [run EXCEPT !.cursor[h] = IF read(src, pos) = NoFrame
                                                    THEN pos ELSE pos + 1,
                                      !.proc[d].got = Append(@, [at |-> o.at,
                                                                 frame |-> read(src, pos)]),
                                      !.proc[d].k = @ + 1]
            [] o.op = "get" ->
                   run' = [run EXCEPT !.proc[d].next_idx = pos,
                                      !.proc[d].k = @ + 1]
            [] o.op = "set_next" ->
                   run' = [run EXCEPT !.cursor[h] = p.next_idx,
                                      !.proc[d].seeks = Append(@, p.next_idx),
                                      !.proc[d].k = @ + 1]
            [] o.op = "set_prev" ->
                   run' = [run EXCEPT !.cursor[h] = p.next_idx - 1,
                                      !.proc[d].seeks = Append(@, p.next_idx - 1),
                                      !.proc[d].k = @ + 1]
    /\ UNCHANGED <<src, sa, cd, hd, scenes, call, ref>>

\* The detector releases its handle and returns.
Finish(d) ==
    /\ run # None /\ "proc" \in DOMAIN run
    /\ run.proc[d].pc = "open"
    /\ run.proc[d].k > Len(run.proc[d].ops)
    /\ LET p == run.proc[d]
           ret == IF Undisturbed(p, src) THEN alone(d, src, p.max_duration)
                  ELSE [disturbed |-> p.got]
       IN /\ run' = [run EXCEPT !.proc[d].pc = "done", !.proc[d].ret = Some(ret)]
          /\ hd' = IF d = "highlight" THEN [highlights |-> ret] ELSE hd
          /\ call' = [op |-> d, args |-> <<>>, ret |-> ret, raised |-> None]
    /\ UNCHANGED <<src, sa, cd, scenes, ref>>

ParallelNext == \E d \in Detectors : Open(d) \/ HandleStep(d) \/ Finish(d)

ParallelSpec == ParallelInit /\ [][ParallelNext]_vars

\* C19: when the three detectors work on the same file at the same time, each
\* on its own decode handle, every read of every detector returns the frame at
\* the position that detector asked for, whatever the interleaving, and each
\* detector returns what it returns when it works alone.
C19_Independent ==
    "proc" \in DOMAIN run =>
        \A d \in Detectors :
            /\ Undisturbed(run.proc[d], src)
            /\ run.proc[d].pc = "done"
                   => run.proc[d].ret = Some(alone(d, src, run.proc[d].max_duration))

\* All three detectors have returned on the 31-second file, whose outro the
\* content detector finds by scanning backwards.
C19_Witness ==
    /\ "proc" \in DOMAIN run
    /\ \A d \in Detectors : run.proc[d].pc = "done" /\ Len(run.proc[d].got) >= 2
    /\ src.frame_count = 155

StrictlyIncreasing(seq) == \A i \in 1..(Len(seq) - 1) : seq[i] < seq[i + 1]

NonDecreasing(seq) == \A i \in 1..(Len(seq) - 1) : seq[i] <= seq[i + 1]

\* C20: within one invocation of detect_scenes the frame positions sought are
\* strictly increasing: the file is read in one forward pass.
C20_SceneSeeksForward ==
    "proc" \in DOMAIN run => StrictlyIncreasing(run.proc["scene"].seeks)

\* detect_scenes has returned after seeking at least twice.
C20_Witness ==
    /\ "proc" \in DOMAIN run
    /\ run.proc["scene"].pc = "done"
    /\ Len(run.proc["scene"].seeks) >= 2

\* C20 as stated: within one invocation of each detector the frame positions
\* sought never go back.
C20_AllSeeksForward ==
    "proc" \in DOMAIN run => \A d \in Detectors : NonDecreasing(run.proc[d].seeks)

(***************************************************************************)
(* How far the sampling loops go                                           *)
(***************************************************************************)
\* The positions detect_content_boundaries seeks to on the source of the call.
ContentSeeks ==
    LET ops == content_ops(src)
    IN {ops[i].pos : i \in {j \in 1..Len(ops) : ops[j].op = "set"}}

\* The requested duration of the last detect_content_boundaries call, in ticks.
ArgSampleDuration == Sec(call.args[1])

\* C21: a call of detect_content_boundaries(sample_duration) samples only the
\* first min(sample_duration, total duration) seconds of the source: every frame
\* it seeks to lies before that time.
C21_SamplingBounded ==
    BoundariesReturned =>
        \A pos \in ContentSeeks :
            FrameTime(src.fps, pos) < Min(ArgSampleDuration, total_duration_of(src))

(***************************************************************************)
(* The outro                                                               *)
(***************************************************************************)
\* The whole seconds the loop of _detect_outro visits, latest first.
OutroCandidates ==
    LET total_duration == total_duration_of(src)
    IN Range(IntSec(total_duration - Sec(30)),
             IntSec(total_duration - Min(Sec(300), total_duration)), -10)

\* The candidate times as the sentence "from totalDuration - 30 in 10-second
\* steps" gives them, in ticks, latest first.
StatedOutroCandidates ==
    LET total_duration == total_duration_of(src)
        stop == total_duration - Min(Sec(300), total_duration)
        first == total_duration - Sec(30)
    IN IF first <= stop THEN <<>>
       ELSE [k \in 1..((first - stop + Sec(10) - 1) \div Sec(10)) |-> first - Sec(10) * (k - 1)]

\* Rolling credits at time, or a black frame at time followed only by black
\* frames and rolling credits at the points sampled every 10 seconds up to the end.
OutroHitAt(time) ==
    \/ _has_rolling_credits(src, time)
    \/ /\ _is_black_frame(src, time)
       /\ LET ts == Range(IntSec(time), IntSec(total_duration_of(src)), 10)
          IN \A k \in 1..Len(ts) :
                 _is_black_frame(src, Sec(ts[k])) \/ _has_rolling_credits(src, Sec(ts[k]))

NoOutroHit == \A k \in 1..Len(OutroCandidates) : ~OutroHitAt(Sec(OutroCandidates[k]))

\* C22: when no candidate of the backward scan shows rolling credits or a black
\* frame followed only by ending content, detect_content_boundaries raises
\* nothing and outro.start is max(total_duration - 60, total_duration * 0.95).
C22_DefaultOutro ==
    (BoundariesReturned /\ NoOutroHit) =>
        /\ call.raised = None
        /\ call.ret.outro.start = Max(total_duration_of(src) - Sec(60),
                                      (total_duration_of(src) * 19) \div 20)

\* The scan visited at least two candidates and none was taken.
C22_Witness ==
    /\ BoundariesReturned
    /\ Len(OutroCandidates) >= 2
    /\ NoOutroHit

\* C23: when some candidate of the backward scan passes the test, outro.start
\* is the latest whole-second candidate int(total_duration - 30) - 10 k above
\* int(total_duration - min(300, total_duration)) that passes it.
C23_LatestCandidate ==
    (BoundariesReturned /\ ~NoOutroHit) =>
        \E k \in 1..Len(OutroCandidates) :
            /\ call.ret.outro.start = Sec(OutroCandidates[k])
            /\ OutroHitAt(Sec(OutroCandidates[k]))
            /\ \A j \in 1..(k - 1) : ~OutroHitAt(Sec(OutroCandidates[j]))

\* Two candidates pass the test and the later one is not the first visited.
C23_Witness ==
    /\ BoundariesReturned
    /\ \E j, k \in 1..Len(OutroCandidates) :
           /\ 1 < j /\ j < k
           /\ ~OutroHitAt(Sec(OutroCandidates[1]))
           /\ OutroHitAt(Sec(OutroCandidates[j]))
           /\ OutroHitAt(Sec(OutroCandidates[k]))
           /\ call.ret.outro.start = Sec(OutroCandidates[j])

\* C23 as stated: the candidates are total_duration - 30, total_duration - 40,
\* ... and outro.start is the latest of them that passes the test.
C23_AsStated ==
    (BoundariesReturned
     /\ \E k \in 1..Len(StatedOutroCandidates) : OutroHitAt(StatedOutroCandidates[k])) =>
        \E k \in 1..Len(StatedOutroCandidates) :
            /\ call.ret.outro.start = StatedOutroCandidates[k]
            /\ OutroHitAt(StatedOutroCandidates[k])
            /\ \A j \in 1..(k - 1) : ~OutroHitAt(StatedOutroCandidates[j])

(***************************************************************************)
(* The intro                                                               *)
(***************************************************************************)
\* The windows i >= 1 whose cut frequency is below half of window i - 1's
\* (window i is IntroFrequencies[i + 1]).
DroppingWindows ==
    {i \in 1..(Len(IntroFrequencies) - 1) :
        frequency_dropped(IntroFrequencies[i + 1], IntroFrequencies[i])}

\* C24: when some 10-second window i >= 1 has a cut frequency strictly below
\* half of window i - 1's, intro.end is 10 * i seconds for the smallest such i,
\* whatever the later windows show.
C24_FirstDrop ==
    (BoundariesReturned /\ DroppingWindows # {}) =>
        \E i \in DroppingWindows :
            /\ \A j \in DroppingWindows : i <= j
            /\ call.ret.intro.end = Sec(10 * i)

\* Two windows dropped and the first of them is not window 1.
C24_Witness ==
    /\ BoundariesReturned
    /\ Cardinality(DroppingWindows) >= 2
    /\ 1 \notin DroppingWindows
    /\ call.ret.intro.end = Sec(20)

(***************************************************************************)
(* Short ranges and scene lengths                                          *)
(***************************************************************************)
\* max_frames of the returned call.
AnalyzedFrames == Min(call.args[1] * src.fps, src.frame_count)

\* The analysed range has at least one frame and fewer than int(fps).
ShortRange == 1 <= AnalyzedFrames /\ AnalyzedFrames < src.fps

OneSceneOverRange ==
    /\ Len(call.ret) = 1
    /\ call.ret[1].start = 0
    /\ call.ret[1].end = AnalyzedDuration

\* C25: when the analysed range has at least one frame but fewer than int(fps)
\* and its first frame decodes, detect_scenes returns exactly one scene, from 0
\* to the analysed duration; and whenever the analysed range has a frame and the
\* first frame decodes, the list is not empty and ends at the analysed duration.
C25_ShortRangeOneScene ==
    (ScenesReturned /\ AnalyzedFrames >= 1 /\ read(src, 0) # NoFrame) =>
        /\ call.ret # <<>>
        /\ call.ret[Len(call.ret)].end = AnalyzedDuration
        /\ ShortRange => OneSceneOverRange

\* A call on a range of one frame at 2 frames per second that decodes.
C25_Witness ==
    /\ ScenesReturned
    /\ ShortRange
    /\ read(src, 0) # NoFrame
    /\ OneSceneOverRange

\* C25 as stated: a range shorter than one sampling interval always gives
\* exactly one scene.
C25_AsStated ==
    ScenesReturned =>
        /\ ShortRange => OneSceneOverRange
        /\ (AnalyzedFrames >= 1 /\ read(src, 0) # NoFrame) => call.ret # <<>>

\* C26: every scene detect_scenes returns ends strictly after it starts, and
\* its duration is end - start.
C26_ScenesNotEmpty ==
    ScenesReturned =>
        \A i \in 1..Len(call.ret) :
            /\ call.ret[i].start < call.ret[i].end
            /\ call.ret[i].duration = call.ret[i].end - call.ret[i].start

\* Cuts at two consecutive samples closed a scene of one sampling interval, and
\* a last scene was flushed after it.
C26_Witness ==
    /\ ScenesReturned
    /\ Len(call.ret) >= 3
    /\ call.ret[2].end - call.ret[2].start = FrameTime(src.fps, src.fps)

(***************************************************************************)
(* Which scenes and samples become highlights                              *)
(***************************************************************************)
\* The ways of making the returned highlights from distinct scenes of the
\* argument list: position i of the result comes from scene f[i].
SceneChoices ==
    {f \in [1..Len(call.ret) -> 1..Len(ArgScenes.val)] :
        /\ \A i, j \in 1..Len(call.ret) : i # j => f[i] # f[j]
        /\ \A i \in 1..Len(call.ret) :
               /\ call.ret[i].start = ArgScenes.val[f[i]].start
               /\ call.ret[i].end = ArgScenes.val[f[i]].end}

\* C27: on a scene list detect_highlights returns exactly
\* min(max_highlights, number of scenes) highlights, each with the start and
\* end of a distinct scene of the list, and no scene left out has a strictly
\* higher score than a scene that was taken.
C27_TopScenes ==
    (HighlightsReturned /\ SceneDriven) =>
        /\ Len(call.ret) = Min(ArgMaxHighlights, Len(ArgScenes.val))
        /\ \E f \in SceneChoices :
               \A out \in 1..Len(ArgScenes.val) :
                   (\A i \in 1..Len(call.ret) : f[i] # out) =>
                       \A i \in 1..Len(call.ret) :
                           DocumentedScore(ArgScenes.val[out])
                               <= DocumentedScore(ArgScenes.val[f[i]])

\* Two of five scenes were taken, and not the first two of the list.
C27_Witness ==
    /\ HighlightsReturned
    /\ SceneDriven
    /\ Len(ArgScenes.val) = 5
    /\ Len(call.ret) = 2
    /\ \A i \in 1..2 : call.ret[i].start >= ArgScenes.val[3].start

\* The samples a raw-video call scores: one frame per second, up to the first
\* frame that does not decode.
RawSampleIdxs == Range(0, src.frame_count, src.fps)

RawSamples ==
    LET n == Cardinality({k \in 1..Len(RawSampleIdxs) :
                             \A j \in 1..k : read(src, RawSampleIdxs[j]) # NoFrame})
    IN {Metric(src, src.fps, RawSampleIdxs[k], read(src, RawSampleIdxs[k])) : k \in 1..n}

\* a comes before b in the stable sort by descending score.
RankedAbove(a, b) == a.score > b.score \/ (a.score = b.score /\ a.time < b.time)

\* The samples whose time is the start of a returned highlight.
SelectedSamples == {m \in RawSamples : \E i \in 1..Len(call.ret) : call.ret[i].start = m.time}

\* C28: on the video alone detect_highlights returns at most max_highlights
\* highlights, one per selected sample; any two of them start at least
\* 2 * min_duration apart; and a sample is left out only when max_highlights
\* samples ranked above it were taken or a selected sample ranked above it
\* lies within 2 * min_duration of it.
C28_GreedySelection ==
    (HighlightsReturned /\ ~SceneDriven) =>
        /\ Len(call.ret) <= ArgMaxHighlights
        /\ Cardinality(SelectedSamples) = Len(call.ret)
        /\ \A i, j \in 1..Len(call.ret) :
               i # j => Abs(call.ret[i].start - call.ret[j].start) >= 2 * Sec(ArgMinDuration)
        /\ \A m \in RawSamples \ SelectedSamples :
               \/ Cardinality({t \in SelectedSamples : RankedAbove(t, m)}) = ArgMaxHighlights
               \/ \E t \in SelectedSamples :
                      RankedAbove(t, m) /\ Abs(t.time - m.time) < 2 * Sec(ArgMinDuration)

\* A call that took two samples, left one out for being too close to a taken
\* one and another for the count.
C28_Witness ==
    /\ HighlightsReturned
    /\ ~SceneDriven
    /\ ArgMaxHighlights = 2
    /\ Len(call.ret) = 2
    /\ \E m \in RawSamples \ SelectedSamples :
           \E t \in SelectedSamples :
               RankedAbove(t, m) /\ Abs(t.time - m.time) < 2 * Sec(ArgMinDuration)
    /\ \E m \in RawSamples \ SelectedSamples :
           \A t \in SelectedSamples :
               RankedAbove(t, m) /\ Abs(t.time - m.time) >= 2 * Sec(ArgMinDuration)

(***************************************************************************)
(* The black run that reaches the outro                                    *)
(***************************************************************************)
\* The whole seconds _detect_black_frames samples in the returned call.
BlackSampleTimes ==
    Range(IntSec(call.ret.intro.end), IntSec(call.ret.outro.start), 5)

\* The samples of the run of black samples that lasts up to the last sample.
TrailingBlackSamples ==
    {k \in 1..Len(BlackSampleTimes) :
        \A j \in k..Len(BlackSampleTimes) : _is_black_frame(src, Sec(BlackSampleTimes[j]))}

\* C29: every black-frame segment ends at a sample that is not black and that
\* follows a black sample, and no segment reaches into the run of black samples
\* that lasts up to the last sample before outro.start, however long that run is.
C29_TrailingRunDropped ==
    BoundariesReturned =>
        \A i \in 1..Len(call.ret.black_frames) :
            /\ \E k \in 2..Len(BlackSampleTimes) :
                   /\ call.ret.black_frames[i].end = Sec(BlackSampleTimes[k])
                   /\ ~_is_black_frame(src, Sec(BlackSampleTimes[k]))
                   /\ _is_black_frame(src, Sec(BlackSampleTimes[k - 1]))
            /\ \A k \in TrailingBlackSamples :
                   call.ret.black_frames[i].end < Sec(BlackSampleTimes[k])

\* A black run of 15 seconds or more reaches the last sample; an earlier black
\* passage was reported.
C29_Witness ==
    /\ BoundariesReturned
    /\ Cardinality(TrailingBlackSamples) >= 3
    /\ Len(call.ret.black_frames) >= 1

(***************************************************************************)
(* detect_highlights on an empty scene list                                *)
(***************************************************************************)
\* detect_highlights(scenes=None or scenes=[], ...); ref keeps an earlier call.
DetectHighlightsWithoutScenes ==
    \E scene_arg \in {None, Some(<<>>)}, max_highlights \in {1, 2},
       d \in {<<1, 2>>, <<3, 30>>} :
        /\ DoDetectHighlights(scene_arg, max_highlights, d[1], d[2])
        /\ Track

\* Videos of two stills of 4 seconds at 1 frame per second, and a 3-second one
\* that stops decoding after its first frame.
EmptyListSources ==
    {Source(1, runs, 8) : runs \in [1..2 -> {Still(4, f) : f \in ShortFrames}]}
    \cup {Source(1, <<Still(3, Plain)>>, 1)}

EmptyListSpec ==
    InitOn(EmptyListSources) /\ [][DetectHighlightsWithoutScenes]_vars

\* The tracked call was made with scenes=None and the other arguments of the
\* last call.
SameCallWithNone ==
    /\ ref # None
    /\ ref.val.op = "detect_highlights"
    /\ ref.val.args = <<None, ArgMaxHighlights, ArgMinDuration, ArgMaxDuration>>

\* C30: a call of detect_highlights with an empty scene list returns what the
\* call with scenes=None and the same other arguments returns on that video,
\* the highlights of the raw-video scoring.
C30_EmptyListLikeNone ==
    (HighlightsReturned /\ ArgScenes = Some(<<>>)) =>
        /\ call.raised = None
        /\ call.ret = _detect_from_video(hd, src, ArgMaxHighlights, ArgMinDuration,
                                         ArgMaxDuration)
        /\ SameCallWithNone => call.ret = ref.val.ret

\* A call with an empty scene list has returned highlights, after the same call
\* with scenes=None.
C30_Witness ==
    /\ HighlightsReturned
    /\ ArgScenes = Some(<<>>)
    /\ SameCallWithNone
    /\ Len(call.ret) >= 2

====
